---------------------------- MODULE Spec2Model ----------------------------
(***************************************************************************)
(* Model of the SABRE routing engine of                                    *)
(*   src/qiskit/transpiler/passes/routing/cython/sabre/sabre.pyx           *)
(* The file holds two revisions of the module one after the other; the     *)
(* second one (lines 295-593) redefines every name of the first and is the *)
(* one modelled here.                                                      *)
(*                                                                         *)
(* heuristic_search is a loop                                              *)
(*     while not front_layer.empty():  drain pass  |  swap selection       *)
(* and every iteration of the loop is one action of the model.             *)
(*                                                                         *)
(* Logical and physical qubits are 0 .. num_qubits-1, node ids are the     *)
(* positions 1 .. Len(dag) of the gates in the circuit.  The decay vector  *)
(* holds doubles of the form 1 + k * 0.001; it is kept in thousandths.     *)
(*                                                                         *)
(* The gate sequences of src/unnamed/part_000 (remove_inverse_follows_gate,*)
(* check_candidate, generate_approximations) are modelled beside it, with  *)
(* variables of their own that stay idle while the routing engine runs.    *)
(***************************************************************************)
EXTENDS Integers, Sequences, FiniteSets, TLC

\* ------------------------------------------------------------------ bounds
NumQubits == 3          \* num_qubits of the runs explored in full
MaxGates == 3           \* longest circuit explored
MaxSearchSteps == 2     \* swap iterations recorded in one run
MaxChain == 30          \* longest circuit the lookahead is explored on
MaxWideGates == 2       \* longest circuit explored on one more qubit
MaxSeqLen == 4          \* longest gate sequence reduced on its own
MaxItemLen == 3         \* longest gate sequence in a list of products
MaxProducts == 2        \* longest list of products

\* --------------------------------------------------------- program constants
EXTENDED_SET_SIZE == 20
DECAY_RATE == 1             \* 0.001, in thousandths
DECAY_RESET_INTERVAL == 5
DecayOne == 1000            \* the double 1 of _reset_qubits_decay, in thousandths

VARIABLES
    num_qubits,       \* unsigned int num_qubits (read only)
    dag,              \* the circuit: dag[n] = logical qargs of node n (read only)
    adj_matrix,       \* adj_matrix[p][q], 0 or 1 (read only)
    front_layer,      \* cpplist[unsigned int]: sequence of node ids
    applied_gates,    \* cset[unsigned int]
    logic_to_phys,    \* current_layout.logic_to_phys
    phys_to_logic,    \* current_layout.phys_to_logic
    qubits_decay,     \* double[::1], in thousandths
    num_search_steps, \* unsigned int
    mapped_dag,       \* the operations applied to mapped_dag, in order
    extended_set,     \* cset[unsigned int]: the set a call of
                      \* obtain_extended_set on its own has returned
    pc,               \* "loop" while heuristic_search runs, then "returned" or
                      \* "raised"; "lookahead" and "lookahead_done" around a
                      \* call of obtain_extended_set on its own
    history,          \* TRUE: mapped_dag and num_search_steps are kept in full
    products,         \* generate_approximations: the list of gate lists passed
    item,             \* position in products of the loop of line 332
    candidate,        \* the GateSequence of the item: [gates, product]
    index,            \* cdef int index of remove_inverse_follows_gate
    sequences,        \* cdef list sequences
    bfs_successors_pernode,   \* obtain_extended_set: per front-layer node the
                              \* entries its generator has still to yield
    node_lookahead_exhausted, \* bool[:]
    cycle_index               \* the generator the cycle of line 545 is at

vars == << num_qubits, dag, adj_matrix, front_layer, applied_gates,
           logic_to_phys, phys_to_logic, qubits_decay, num_search_steps,
           mapped_dag, extended_set, pc, history,
           products, item, candidate, index, sequences,
           bfs_successors_pernode, node_lookahead_exhausted, cycle_index >>

approx_vars == << products, item, candidate, index, sequences >>

lookahead_vars ==
    << bfs_successors_pernode, node_lookahead_exhausted, cycle_index >>

Qubits == 0 .. (num_qubits - 1)

\* ------------------------------------------------------------ small helpers
Range(s) == { s[i] : i \in DOMAIN s }

\* the elements of a finite set of integers in ascending order
RECURSIVE SetToSeq(_)
SetToSeq(S) ==
    IF S = {} THEN << >>
    ELSE LET m == CHOOSE x \in S : \A y \in S : x <= y
         IN  << m >> \o SetToSeq(S \ {m})

\* ------------------------------------------------------------------ DagView
\* The circuit IR is not part of the sources; the dependency graph is the one
\* a circuit defines: an edge u -> v for every qubit on which v is the next
\* operation after u.
NodeIds(d) == 1 .. Len(d)

QargSet(d, n) == Range(d[n])

NextOnWire(d, u, v, q) ==
    /\ u < v
    /\ q \in QargSet(d, u)
    /\ q \in QargSet(d, v)
    /\ \A k \in NodeIds(d) : (u < k /\ k < v) => q \notin QargSet(d, k)

quantum_successors(d, u) ==
    SetToSeq({ v \in NodeIds(d) : \E q \in Qubits : NextOnWire(d, u, v, q) })

quantum_predecessors(d, v) ==
    SetToSeq({ u \in NodeIds(d) : \E q \in Qubits : NextOnWire(d, u, v, q) })

\* the operation nodes without operation predecessors
DagRoots(d) ==
    SetToSeq({ n \in NodeIds(d) : quantum_predecessors(d, n) = << >> })

\* bfs_successors(node): for every node in breadth-first order from node, the
\* list of its successors.  In the circuit IR every wire ends in an output
\* node, so every operation node has an entry; the entry holds the operation
\* successors, the only ones line 551 keeps.
RECURSIVE BfsEntries(_, _, _)
BfsEntries(d, queue, discovered) ==
    IF queue = << >> THEN << >>
    ELSE LET successors == quantum_successors(d, Head(queue))
             fresh == SelectSeq(successors, LAMBDA v : v \notin discovered)
         IN  << successors >>
                 \o BfsEntries(d, Tail(queue) \o fresh,
                               discovered \cup Range(fresh))

bfs_successors(d, n) == BfsEntries(d, << n >>, { n })

\* the operation nodes reachable from n by one or more edges
RECURSIVE SuccessorClosure(_, _)
SuccessorClosure(successors, S) ==
    LET T == S \cup UNION { successors[u] : u \in S }
    IN  IF T = S THEN S ELSE SuccessorClosure(successors, T)

Descendants(d, n) ==
    LET successors == [u \in NodeIds(d) |-> Range(quantum_successors(d, u))]
    IN  SuccessorClosure(successors, successors[n])

\* ------------------------------------------------------------------ NLayout
\* qiskit/transpiler/passes/routing/cython/stochastic_swap/utils.pyx is not
\* among the sources.  A layout is the record [l2p, p2l]; swap(idx1, idx2)
\* exchanges the two slots idx1, idx2 of phys_to_logic and updates the two
\* affected entries of logic_to_phys.
\* NLayout_swap with the second update of logic_to_phys left out
NLayout_swap_one_sided(layout, idx1, idx2) ==
    LET temp1 == layout.p2l[idx1]
        temp2 == layout.p2l[idx2]
        p2l1  == [layout.p2l EXCEPT ![idx1] = temp2, ![idx2] = temp1]
    IN  [l2p |-> [layout.l2p EXCEPT ![p2l1[idx1]] = idx1], p2l |-> p2l1]

NLayout_swap(layout, idx1, idx2) ==
    LET temp1 == layout.p2l[idx1]
        temp2 == layout.p2l[idx2]
        p2l1  == [layout.p2l EXCEPT ![idx1] = temp2, ![idx2] = temp1]
        l2p1  == [layout.l2p EXCEPT ![p2l1[idx1]] = idx1]
        l2p2  == [l2p1 EXCEPT ![p2l1[idx2]] = idx2]
    IN  [l2p |-> l2p2, p2l |-> p2l1]

NLayout_copy(layout) == [l2p |-> layout.l2p, p2l |-> layout.p2l]

current_layout == [l2p |-> logic_to_phys, p2l |-> phys_to_logic]


\* ------------------------------------------------------------------- inputs
\* qargs of the gates the explored circuits are built from: a one-qubit gate,
\* a two-qubit gate on neighbours of the path, one on qubits two apart, and a
\* three-qubit gate
GateArgs == { << 0 >>, << 1, 2 >>, << 0, 2 >>, << 0, 1, 2 >> }

RECURSIVE SeqsUpTo(_, _)
SeqsUpTo(S, n) ==
    IF n = 0 THEN { << >> }
    ELSE LET shorter == SeqsUpTo(S, n - 1)
         IN  shorter \cup { Append(s, x) : s \in shorter, x \in S }

Circuits == SeqsUpTo(GateArgs, MaxGates)

\* coupling maps: the path 0 - 1 - ... - N-1, the complete graph and the graph
\* without edges; and, for the runs explored without their history, the single
\* edge 0 - 1 with every other qubit isolated
PathAdj == [p \in Qubits |-> [q \in Qubits |->
               IF p - q = 1 \/ q - p = 1 THEN 1 ELSE 0]]

CompleteAdj == [p \in Qubits |-> [q \in Qubits |-> IF p # q THEN 1 ELSE 0]]

SplitAdj == [p \in Qubits |-> [q \in Qubits |->
                IF p + q = 1 THEN 1 ELSE 0]]

EmptyAdj == [p \in Qubits |-> [q \in Qubits |-> 0]]

AdjMatrices == { PathAdj, CompleteAdj, EmptyAdj }

\* cdist: the caller passes the all-pairs shortest-path distances of the
\* coupling map.  Ball(adj, p, k) is the set of qubits at most k edges from p;
\* a pair in different components gets the distance num_qubits, which no path
\* has.
RECURSIVE Ball(_, _, _)
Ball(adj, p, k) ==
    IF k = 0 THEN { p }
    ELSE LET inner == Ball(adj, p, k - 1)
         IN  inner \cup { q \in Qubits : \E r \in inner : adj[r][q] # 0 }

cdist(adj) ==
    [p \in Qubits |-> [q \in Qubits |->
        IF q \in Ball(adj, p, num_qubits - 1)
        THEN CHOOSE k \in 0 .. (num_qubits - 1) :
                 /\ q \in Ball(adj, p, k)
                 /\ \A j \in 0 .. (k - 1) : q \notin Ball(adj, p, j)
        ELSE num_qubits]]

Connected(adj) == \A p \in Qubits : Ball(adj, p, num_qubits - 1) = Qubits

\* Circuits long enough for the lookahead to fill: a prefix followed by
\* repetitions of a body, cut at every length up to MaxChain.  The front layer
\* passed is the layer of roots, as heuristic_search receives it.
Prefixes == { << >>, << << 0, 2 >> >>, << << 0 >>, << 1, 2 >> >> }

Bodies == { << << 0, 2 >>, << 1, 2 >> >>,
            << << 0, 1 >>, << 2 >>, << 0, 2 >>, << 1, 2 >> >>,
            << << 0, 2 >>, << 0, 1, 2 >>, << 1 >> >> }

Periodic(prefix, body, n) ==
    [k \in 1 .. n |->
        IF k <= Len(prefix) THEN prefix[k]
        ELSE body[((k - Len(prefix) - 1) % Len(body)) + 1]]

LongCircuits ==
    { Periodic(prefix, body, n) :
          prefix \in Prefixes, body \in Bodies, n \in 0 .. MaxChain }

\* Circuits for a device of one qubit more: two-qubit gates on qubits that
\* are not neighbours of the path
WideGateArgs == { << 0, 2 >>, << 1, NumQubits >>, << 0, NumQubits >> }

WideCircuits == SeqsUpTo(WideGateArgs, MaxWideGates)

\* ------------------------------------------------- _transform_gate_for_layout
\* mapped_qargs = map(lambda x: device_qreg[layout.phys_to_logic[x]], premap_qargs)
\* The result is the sequence of indices into the device register.
_transform_gate_for_layout(qargs, layout) ==
    [i \in DOMAIN qargs |-> layout.p2l[qargs[i]]]

\* ---------------------------------------------------------------- is_resolved
\* is_resolved returning after the first predecessor
is_resolved_first(applied, node, d) ==
    LET predecessors == quantum_predecessors(d, node)
    IN  predecessors = << >> \/ predecessors[1] \in applied

is_resolved(applied, node, d) ==
    LET predecessors == quantum_predecessors(d, node)
    IN  \A i \in DOMAIN predecessors : predecessors[i] \in applied

\* ------------------------------------------------------- _reset_qubits_decay
_reset_qubits_decay == [i \in Qubits |-> DecayOne]

\* ------------------------------------------ heuristic_search, lines 384 - 393
\* a two-qubit node is executable when its qubits sit on coupled physical
\* qubits; a node of any other arity is executable
\* the test reading the position of v0 for both qubits
IsExecutable_same_qubit(node_id, d, adj, layout) ==
    IF Len(d[node_id]) = 2
    THEN LET v0 == d[node_id][1]
         IN  adj[layout.l2p[v0]][layout.l2p[v0]] # 0
    ELSE TRUE

IsExecutable(node_id, d, adj, layout) ==
    IF Len(d[node_id]) = 2
    THEN LET v0 == d[node_id][1]
             v1 == d[node_id][2]
         IN  adj[layout.l2p[v1]][layout.l2p[v0]] # 0
    ELSE TRUE

ExecuteGateList(fl, d, adj, layout) ==
    SelectSeq(fl, LAMBDA node_id : IsExecutable(node_id, d, adj, layout))

\* ------------------------------------------ heuristic_search, lines 395 - 412
\* the body of the loop over execute_gate_list, on the record
\* s = [fl, applied, out, decay]
GateRecord(node_id, d, layout) ==
    [op |-> "gate", node |-> node_id, logical |-> d[node_id],
     qargs |-> _transform_gate_for_layout(d[node_id], layout)]

\* front_layer.pop_front() in place of front_layer.remove(node_id)
ListRemoveFront(fl, node_id) == Tail(fl)

ListRemove(fl, node_id) == SelectSeq(fl, LAMBDA x : x # node_id)

\* the successor loop without the test of line 408
ResolvedSuccessors_unchecked(applied, node_id, d) ==
    quantum_successors(d, node_id)

ResolvedSuccessors(applied, node_id, d) ==
    SelectSeq(quantum_successors(d, node_id),
              LAMBDA successor : is_resolved(applied, successor, d))

\* the loop body without lines 411 - 412
ExecuteNode_keeps_decay(s, node_id, d, layout) ==
    LET applied1 == s.applied \cup { node_id }
    IN  [fl      |-> ListRemove(s.fl, node_id)
                       \o ResolvedSuccessors(applied1, node_id, d),
         applied |-> applied1,
         out     |-> Append(s.out, GateRecord(node_id, d, layout)),
         decay   |-> s.decay]

ExecuteNode(s, node_id, d, layout) ==
    LET applied1 == s.applied \cup { node_id }
    IN  [fl      |-> ListRemove(s.fl, node_id)
                       \o ResolvedSuccessors(applied1, node_id, d),
         applied |-> applied1,
         out     |-> Append(s.out, GateRecord(node_id, d, layout)),
         decay   |-> IF d[node_id] # << >> THEN _reset_qubits_decay ELSE s.decay]

RECURSIVE ExecuteAll(_, _, _, _)
ExecuteAll(s, gate_list, d, layout) ==
    IF gate_list = << >> THEN s
    ELSE ExecuteAll(ExecuteNode(s, Head(gate_list), d, layout),
                    Tail(gate_list), d, layout)

\* --------------------------------------------------------------- obtain_swaps
\* sorted([virtual, virtual_neighbor_bit], key=lambda q: (q.register.name, q.index)):
\* the routed circuit has the single register "q", so the keys compare by index
SortedSwap(virtual, virtual_neighbor) ==
    IF virtual <= virtual_neighbor
    THEN << virtual, virtual_neighbor >>
    ELSE << virtual_neighbor, virtual >>

NeighborSwaps(adj, layout, virtual) ==
    LET physical  == layout.l2p[virtual]
        neighbors == SelectSeq([i \in 1 .. num_qubits |-> i - 1],
                               LAMBDA neighbor : adj[physical][neighbor] # 0)
    IN  [k \in DOMAIN neighbors |-> SortedSwap(virtual, layout.p2l[neighbors[k]])]

RECURSIVE QargSwaps(_, _, _)
QargSwaps(adj, layout, qargs) ==
    IF qargs = << >> THEN << >>
    ELSE NeighborSwaps(adj, layout, Head(qargs))
             \o QargSwaps(adj, layout, Tail(qargs))

\* the pairs obtain_swaps writes to swap_array, in the order it writes them
RECURSIVE obtain_swaps(_, _, _, _)
obtain_swaps(adj, fl, layout, d) ==
    IF fl = << >> THEN << >>
    ELSE QargSwaps(adj, layout, d[Head(fl)])
             \o obtain_swaps(adj, Tail(fl), layout, d)

\* candidate_swaps.push_back(swap_array) stores the address of the local array
\* swap_array (line 515) once per candidate, and the vector is returned after
\* the array's lifetime has ended.  Every later swap_candidates[i][k] of
\* heuristic_search reads through that dangling pointer: the read is undefined
\* and yields whatever the dead stack slot holds.  The model lets it yield any
\* pair of indices of the layout arrays (the pair written last is one of them);
\* values outside the arrays are not explored.
DanglingRead == { << a, b >> : a \in Qubits, b \in Qubits }

\* The vector obtain_swaps returns holds one pointer per pair written, all of
\* them the address of swap_array.  What the caller can find in it: for every
\* entry some DanglingRead.
ReturnedSwaps(written) == [DOMAIN written -> DanglingRead]

\* -------------------------------------------------------- obtain_extended_set
\* filter(lambda x: x.type == 'op' and len(x.qargs) == 2, successors)
TwoQubitOps(d, successors) == SelectSeq(successors, LAMBDA x : Len(d[x]) = 2)

\* the loop of lines 558 - 562 inserting while the set has room left after the
\* insertion too: "<=" in place of "<"
RECURSIVE InsertSuccessors_off_by_one(_, _)
InsertSuccessors_off_by_one(ext, successors) ==
    IF successors = << >> \/ ~(Cardinality(ext) <= EXTENDED_SET_SIZE)
    THEN ext
    ELSE InsertSuccessors_off_by_one(ext \cup { Head(successors) },
                                     Tail(successors))

\* while extended_set.size() < EXTENDED_SET_SIZE: insert next(successors)
RECURSIVE InsertSuccessors(_, _)
InsertSuccessors(ext, successors) ==
    IF successors = << >> \/ ~(Cardinality(ext) < EXTENDED_SET_SIZE)
    THEN ext
    ELSE InsertSuccessors(ext \cup { Head(successors) }, Tail(successors))

\* The loop over cycle(enumerate(bfs_successors_pernode)), at generator i.
\* st = [ext, pos, exhausted]: the set so far, the number of entries taken
\* from each generator, and node_lookahead_exhausted.
RECURSIVE ExtendedSetLoop(_, _, _, _)
ExtendedSetLoop(d, generators, st, i) ==
    IF \/ \A k \in DOMAIN generators : st.exhausted[k]
       \/ Cardinality(st.ext) >= EXTENDED_SET_SIZE
    THEN st.ext
    ELSE LET following == (i % Len(generators)) + 1
         IN  IF st.pos[i] = Len(generators[i])
             THEN ExtendedSetLoop(d, generators,
                                  [st EXCEPT !.exhausted[i] = TRUE], following)
             ELSE LET successors ==
                          TwoQubitOps(d, generators[i][st.pos[i] + 1])
                  IN  ExtendedSetLoop(d, generators,
                          [ext       |-> InsertSuccessors(st.ext, successors),
                           pos       |-> [st.pos EXCEPT ![i] = @ + 1],
                           exhausted |-> st.exhausted],
                          following)

\* the lookahead with the ids of the front layer in the set from the start
obtain_extended_set_from_front(d, fl) ==
    LET generators == [k \in DOMAIN fl |-> bfs_successors(d, fl[k])]
    IN  ExtendedSetLoop(d, generators,
                        [ext       |-> Range(fl),
                         pos       |-> [k \in DOMAIN fl |-> 0],
                         exhausted |-> [k \in DOMAIN fl |-> FALSE]],
                        1)

obtain_extended_set(d, fl) ==
    LET generators == [k \in DOMAIN fl |-> bfs_successors(d, fl[k])]
    IN  ExtendedSetLoop(d, generators,
                        [ext       |-> {},
                         pos       |-> [k \in DOMAIN fl |-> 0],
                         exhausted |-> [k \in DOMAIN fl |-> FALSE]],
                        1)

\* ------------------------------------------------------------- score_heuristic
\* The scores of one iteration are compared with each other only.  With
\* F = front_layer.size() and E = extended_set.size() (1 in place of 0) every
\* score is a multiple of 1 / (2 * F * E * 1000); the operators return the
\* score in that unit, an integer.  Rounding of the doubles is not modelled.
RECURSIVE SumDistances(_, _, _, _)
SumDistances(cd, nodes, layout, d) ==
    IF nodes = << >> THEN 0
    ELSE LET q  == d[Head(nodes)]
             q0 == layout.l2p[q[1]]
             q1 == layout.l2p[q[2]]
         IN  cd[q0][q1] + SumDistances(cd, Tail(nodes), layout, d)

ScoreUnit(fl, ext) ==
    2 * Len(fl) * (IF ext = {} THEN 1 ELSE Cardinality(ext))

\* heuristic 2, in units of 1 / (2 * F * E)
LookaheadScore(cd, fl, ext, layout, d) ==
    LET first_cost  == SumDistances(cd, fl, layout, d)
        second_cost == SumDistances(cd, SetToSeq(ext), layout, d)
    IN  IF ext = {}
        THEN 2 * first_cost
        ELSE 2 * Cardinality(ext) * first_cost + Len(fl) * second_cost

Max(a, b) == IF a >= b THEN a ELSE b

score_heuristic(heuristic, cd, fl, ext, layout, decay, swap_qubits, d) ==
    CASE heuristic = 1 ->
             DecayOne * ScoreUnit(fl, ext) * SumDistances(cd, fl, layout, d)
      [] heuristic = 2 ->
             DecayOne * LookaheadScore(cd, fl, ext, layout, d)
      [] heuristic = 3 ->
             Max(decay[swap_qubits[1]], decay[swap_qubits[2]])
                 * LookaheadScore(cd, fl, ext, layout, d)

Heuristics == { 1, 2, 3 }

\* ------------------------------------------------ gate sequences (part_000)
\* src/unnamed/part_000 holds the gate sequences of the single-qubit
\* approximation.  The gates are taken from h, s, sdg: Gate.inverse and
\* Gate.to_matrix are those of the standard gates.  The SO(3) matrix of each
\* gate is convert_su2_to_so3(convert_u2_to_su2(gate.to_matrix())) (lines 30 -
\* 36, 76 - 86); for these gates its entries are 0, 1 and -1.
GateNames == { "h", "s", "sdg" }

Inverse(gate) ==
    CASE gate = "h"   -> "h"
      [] gate = "s"   -> "sdg"
      [] gate = "sdg" -> "s"

Identity3 == << << 1, 0, 0 >>, << 0, 1, 0 >>, << 0, 0, 1 >> >>

GateSo3(gate) ==
    CASE gate = "h"   -> << << 0, 0, -1 >>, << 0, -1, 0 >>, << -1, 0, 0 >> >>
      [] gate = "s"   -> << << 0, -1, 0 >>, << 1, 0, 0 >>, << 0, 0, 1 >> >>
      [] gate = "sdg" -> << << 0, 1, 0 >>, << -1, 0, 0 >>, << 0, 0, 1 >> >>

\* np.dot on 3 x 3 matrices
Dot(a, b) ==
    [i \in 1 .. 3 |-> [j \in 1 .. 3 |->
        a[i][1] * b[1][j] + a[i][2] * b[2][j] + a[i][3] * b[3][j]]]

\* GateSequence.__cinit__: every gate is multiplied from the left (line 203),
\* and the product is converted to SO(3).  The conversion is multiplicative, so
\* the product is taken in SO(3), as GateSequence.append takes it (line 252).
RECURSIVE SequenceProduct(_)
SequenceProduct(gates) ==
    IF gates = << >> THEN Identity3
    ELSE Dot(GateSo3(gates[Len(gates)]),
             SequenceProduct(SubSeq(gates, 1, Len(gates) - 1)))

\* global_phase is written by the constructor and read by none of the
\* functions modelled
GateSequence(gates) == [gates |-> gates, product |-> SequenceProduct(gates)]

\* matrix_equal(mat1, mat2, ignore_phase=True) of qiskit.quantum_info is not
\* among the sources: each matrix is multiplied by the conjugate phase of its
\* first nonzero entry, and the results are compared entry by entry.  For a
\* real matrix that phase is 1 or -1.
PhaseOf(mat) ==
    LET flat == << mat[1][1], mat[1][2], mat[1][3],
                   mat[2][1], mat[2][2], mat[2][3],
                   mat[3][1], mat[3][2], mat[3][3] >>
        nonzero == SelectSeq(flat, LAMBDA elt : elt # 0)
    IN  IF nonzero # << >> /\ nonzero[1] < 0 THEN -1 ELSE 1

RemovePhase(mat) ==
    [i \in 1 .. 3 |-> [j \in 1 .. 3 |-> PhaseOf(mat) * mat[i][j]]]

matrix_equal(mat1, mat2) == RemovePhase(mat1) = RemovePhase(mat2)

\* list.pop(i), i counted from 0
Pop(gates, i) == SubSeq(gates, 1, i) \o SubSeq(gates, i + 2, Len(gates))

\* check_candidate: the first existing sequence of equal product decides
check_candidate(cand, existing_sequences) ==
    LET equal == SelectSeq(existing_sequences,
                           LAMBDA existing :
                               matrix_equal(existing.product, cand.product))
    IN  IF equal = << >> THEN TRUE
        ELSE ~(Len(cand.gates) >= Len(equal[1].gates))

\* the variables of the loop of obtain_extended_set outside that loop
LookaheadIdle ==
    /\ bfs_successors_pernode = << >>
    /\ node_lookahead_exhausted = << >>
    /\ cycle_index = 1

\* the variables of generate_approximations while heuristic_search is modelled
ApproxIdle ==
    /\ products = << >>
    /\ item = 1
    /\ candidate = GateSequence(<< >>)
    /\ index = 0
    /\ sequences = << >>

\* ------------------------------------------------------------ the run's state
TypeOK ==
    /\ num_qubits \in { NumQubits, NumQubits + 1 }
    /\ dag \in Circuits \cup LongCircuits \cup WideCircuits
    /\ adj_matrix \in AdjMatrices \cup { SplitAdj }
    /\ Range(front_layer) \subseteq NodeIds(dag)
    /\ extended_set \subseteq NodeIds(dag)
    /\ applied_gates \subseteq NodeIds(dag)
    /\ logic_to_phys \in [Qubits -> Qubits]
    /\ phys_to_logic \in [Qubits -> Qubits]
    /\ qubits_decay \in [Qubits -> Nat]
    /\ num_search_steps \in Nat
    /\ pc \in { "loop", "returned", "raised", "lookahead", "lookahead_done",
                "lookahead_loop", "approx_loop", "remove",
                "approx_returned" }
    /\ history \in BOOLEAN
    /\ products \in Seq(Seq(GateNames))
    /\ item \in 1 .. (Len(products) + 1)
    /\ candidate.gates \in Seq(GateNames)
    /\ index \in Nat
    /\ \A k \in DOMAIN sequences : sequences[k].gates \in Seq(GateNames)
    /\ \A k \in DOMAIN bfs_successors_pernode :
          \A e \in DOMAIN bfs_successors_pernode[k] :
              Range(bfs_successors_pernode[k][e]) \subseteq NodeIds(dag)
    /\ node_lookahead_exhausted \in Seq(BOOLEAN)
    /\ cycle_index \in 1 .. (Len(bfs_successors_pernode) + 1)

RunFrom(adj_matrices) ==
    /\ num_qubits = NumQubits
    /\ dag \in Circuits
    /\ adj_matrix \in adj_matrices
    /\ front_layer = DagRoots(dag)
    /\ applied_gates = {}
    /\ logic_to_phys = [l \in Qubits |-> l]
    /\ phys_to_logic = [p \in Qubits |-> p]
    /\ qubits_decay = _reset_qubits_decay
    /\ num_search_steps = 0
    /\ mapped_dag = << >>
    /\ extended_set = {}
    /\ pc = "loop"
    /\ ApproxIdle
    /\ LookaheadIdle

InitRun == RunFrom(AdjMatrices)

Init == InitRun /\ history = TRUE

\* the counter as the model keeps it: in full, or as the residue that line 450
\* reads
Counted(n) == IF history THEN n ELSE n % DECAY_RESET_INTERVAL

Recorded(out) == IF history THEN out ELSE mapped_dag

\* ---------------------------------------- heuristic_search, lines 384 - 418
Drain ==
    LET execute_gate_list ==
            ExecuteGateList(front_layer, dag, adj_matrix, current_layout)
        s0 == [fl |-> front_layer, applied |-> applied_gates,
               out |-> mapped_dag, decay |-> qubits_decay]
        s1 == ExecuteAll(s0, execute_gate_list, dag, current_layout)
    IN  /\ pc = "loop"
        /\ front_layer # << >>
        /\ execute_gate_list # << >>
        /\ front_layer' = s1.fl
        /\ applied_gates' = s1.applied
        /\ mapped_dag' = Recorded(s1.out)
        /\ qubits_decay' = s1.decay
        /\ UNCHANGED << dag, adj_matrix, logic_to_phys, phys_to_logic,
                        num_search_steps, extended_set, pc, history,
                        num_qubits, approx_vars,
                    lookahead_vars >>

\* ---------------------------------------- heuristic_search, lines 420 - 454
SwapRecord(best_swap, layout) ==
    [op |-> "swap", node |-> 0, logical |-> best_swap,
     qargs |-> _transform_gate_for_layout(best_swap, layout)]

DecayAfterSwap(decay, steps, best_swap) ==
    IF steps % DECAY_RESET_INTERVAL = 0
    THEN _reset_qubits_decay
    ELSE LET d1 == [decay EXCEPT ![best_swap[1]] = @ + DECAY_RATE]
         IN  [d1 EXCEPT ![best_swap[2]] = @ + DECAY_RATE]

\* the selection with line 427 taking current_layout itself for the trial
\* layout, not a copy: the swap of a scored candidate stays applied
SwapStep_without_copy ==
    LET swap_candidates ==
            obtain_swaps(adj_matrix, front_layer, current_layout, dag)
    IN  /\ pc = "loop"
        /\ front_layer # << >>
        /\ ExecuteGateList(front_layer, dag, adj_matrix, current_layout) = << >>
        /\ Len(swap_candidates) > 0
        /\ history => num_search_steps < MaxSearchSteps
        /\ \E swap_qubits \in DanglingRead, best_swap \in DanglingRead :
             LET trial_layout == NLayout_swap(current_layout,
                                              swap_qubits[1], swap_qubits[2])
                 layout1 == NLayout_swap(trial_layout,
                                         best_swap[1], best_swap[2])
             IN  /\ mapped_dag' =
                        Recorded(Append(mapped_dag,
                                        SwapRecord(best_swap, trial_layout)))
                 /\ logic_to_phys' = layout1.l2p
                 /\ phys_to_logic' = layout1.p2l
                 /\ num_search_steps' = Counted(num_search_steps + 1)
                 /\ qubits_decay' = DecayAfterSwap(qubits_decay,
                                                   num_search_steps + 1,
                                                   best_swap)
        /\ UNCHANGED << dag, adj_matrix, front_layer, applied_gates,
                        extended_set, pc, history, num_qubits,
                        approx_vars, lookahead_vars >>

\* The extended set of line 420 is read by the scores only.
\* Lines 424 - 439 score one trial layout per entry of swap_candidates and
\* collect in best_swaps the pairs swap_candidates[i] of minimal score; line
\* 441 draws best_swap from the sorted list.  Every pair involved is a
\* DanglingRead, read anew at lines 429, 432 and 439, so whatever the scores
\* are, best_swap is some DanglingRead.  With no candidate np.amin raises at
\* line 434 and the iteration applies nothing.
SwapStep ==
    LET swap_candidates ==
            obtain_swaps(adj_matrix, front_layer, current_layout, dag)
    IN  /\ pc = "loop"
        /\ front_layer # << >>
        /\ ExecuteGateList(front_layer, dag, adj_matrix, current_layout) = << >>
        /\ Len(swap_candidates) > 0
        /\ history => num_search_steps < MaxSearchSteps
        /\ \E best_swap \in DanglingRead :
             LET layout1 == NLayout_swap(current_layout,
                                         best_swap[1], best_swap[2])
             IN  /\ mapped_dag' =
                        Recorded(Append(mapped_dag,
                                        SwapRecord(best_swap, current_layout)))
                 /\ logic_to_phys' = layout1.l2p
                 /\ phys_to_logic' = layout1.p2l
                 /\ num_search_steps' = Counted(num_search_steps + 1)
                 /\ qubits_decay' = DecayAfterSwap(qubits_decay,
                                                   num_search_steps + 1,
                                                   best_swap)
        /\ UNCHANGED << dag, adj_matrix, front_layer, applied_gates,
                        extended_set, pc, history, num_qubits,
                        approx_vars, lookahead_vars >>

\* -------------------------------------------- heuristic_search, lines 382, 464
Return ==
    /\ pc = "loop"
    /\ front_layer = << >>
    /\ pc' = "returned"
    /\ UNCHANGED << dag, adj_matrix, front_layer, applied_gates, logic_to_phys,
                    phys_to_logic, qubits_decay, num_search_steps, mapped_dag,
                    extended_set, history, num_qubits, approx_vars,
                    lookahead_vars >>

\* ---------------------------------------- heuristic_search, lines 420 - 434
\* the selection returning normally when there is nothing to select from
Raise_returns ==
    /\ pc = "loop"
    /\ front_layer # << >>
    /\ ExecuteGateList(front_layer, dag, adj_matrix, current_layout) = << >>
    /\ obtain_swaps(adj_matrix, front_layer, current_layout, dag) = << >>
    /\ pc' = "returned"
    /\ UNCHANGED << dag, adj_matrix, front_layer, applied_gates, logic_to_phys,
                    phys_to_logic, qubits_decay, num_search_steps, mapped_dag,
                    extended_set, history, num_qubits, approx_vars,
                    lookahead_vars >>

\* With no candidate swap_scores is np.zeros(0), the loop of lines 425 - 433
\* does nothing, and np.amin(swap_scores) raises ValueError (a minimum over no
\* element).  Nothing catches it: heuristic_search ends with the exception.
Raise ==
    /\ pc = "loop"
    /\ front_layer # << >>
    /\ ExecuteGateList(front_layer, dag, adj_matrix, current_layout) = << >>
    /\ obtain_swaps(adj_matrix, front_layer, current_layout, dag) = << >>
    /\ pc' = "raised"
    /\ UNCHANGED << dag, adj_matrix, front_layer, applied_gates, logic_to_phys,
                    phys_to_logic, qubits_decay, num_search_steps, mapped_dag,
                    extended_set, history, num_qubits, approx_vars,
                    lookahead_vars >>

Next == Drain \/ SwapStep \/ Raise \/ Return

Spec == Init /\ [][Next]_vars


\* the loop runs whenever it can: heuristic_search is straight-line sequential
\* code.  The records of mapped_dag and the full counter are never read by the
\* loop, so with history = FALSE the same runs are explored over a finite
\* state graph.
InitLive == RunFrom(AdjMatrices \cup { SplitAdj }) /\ history = FALSE

LiveSpec == InitLive /\ [][Next]_vars /\ WF_vars(Next)

\* ------------------------------- obtain_extended_set, one pass of its loop
\* The loop of lines 545 - 562, every pass one action.  Line 542 builds the
\* generators before the loop; a generator is kept as the list of the entries
\* it has still to yield, and next() takes the first.
InitLookaheadLoop ==
    /\ num_qubits = NumQubits
    /\ dag \in LongCircuits
    /\ adj_matrix = PathAdj
    /\ front_layer = DagRoots(dag)
    /\ applied_gates = {}
    /\ logic_to_phys = [l \in Qubits |-> l]
    /\ phys_to_logic = [p \in Qubits |-> p]
    /\ qubits_decay = _reset_qubits_decay
    /\ num_search_steps = 0
    /\ mapped_dag = << >>
    /\ extended_set = {}
    /\ pc = "lookahead_loop"
    /\ history = FALSE
    /\ ApproxIdle
    /\ bfs_successors_pernode =
           [k \in DOMAIN front_layer |-> bfs_successors(dag, front_layer[k])]
    /\ node_lookahead_exhausted = [k \in DOMAIN front_layer |-> FALSE]
    /\ cycle_index = 1

\* the test of line 546
LookaheadOver ==
    \/ \A k \in DOMAIN node_lookahead_exhausted : node_lookahead_exhausted[k]
    \/ Cardinality(extended_set) >= EXTENDED_SET_SIZE

\* cycle(...): after the last generator comes the first
FollowingIndex == (cycle_index % Len(bfs_successors_pernode)) + 1

\* line 546 - 547
LookaheadBreak ==
    /\ pc = "lookahead_loop"
    /\ LookaheadOver
    /\ pc' = "lookahead_done"
    /\ UNCHANGED << num_qubits, dag, adj_matrix, front_layer, applied_gates,
                    logic_to_phys, phys_to_logic, qubits_decay,
                    num_search_steps, mapped_dag, extended_set, history,
                    approx_vars, lookahead_vars >>

\* lines 553 - 555: next() raises StopIteration
LookaheadExhausted ==
    /\ pc = "lookahead_loop"
    /\ ~LookaheadOver
    /\ bfs_successors_pernode[cycle_index] = << >>
    /\ node_lookahead_exhausted' =
           [node_lookahead_exhausted EXCEPT ![cycle_index] = TRUE]
    /\ cycle_index' = FollowingIndex
    /\ UNCHANGED << num_qubits, dag, adj_matrix, front_layer, applied_gates,
                    logic_to_phys, phys_to_logic, qubits_decay,
                    num_search_steps, mapped_dag, extended_set, pc, history,
                    approx_vars, bfs_successors_pernode >>

\* the pass taking a list without a two-qubit operation for the end of the
\* generator
LookaheadPass_stops_on_empty ==
    /\ pc = "lookahead_loop"
    /\ ~LookaheadOver
    /\ bfs_successors_pernode[cycle_index] # << >>
    /\ LET successors ==
               TwoQubitOps(dag, Head(bfs_successors_pernode[cycle_index]))
       IN  /\ extended_set' = InsertSuccessors(extended_set, successors)
           /\ node_lookahead_exhausted' =
                  IF successors = << >>
                  THEN [node_lookahead_exhausted EXCEPT ![cycle_index] = TRUE]
                  ELSE node_lookahead_exhausted
    /\ bfs_successors_pernode' =
           [bfs_successors_pernode EXCEPT ![cycle_index] = Tail(@)]
    /\ cycle_index' = FollowingIndex
    /\ UNCHANGED << num_qubits, dag, adj_matrix, front_layer, applied_gates,
                    logic_to_phys, phys_to_logic, qubits_decay,
                    num_search_steps, mapped_dag, pc, history, approx_vars >>

\* lines 549 - 552 and 557 - 562: next() yields a list of successors, its
\* two-qubit operations are inserted while the set has room
LookaheadPass ==
    /\ pc = "lookahead_loop"
    /\ ~LookaheadOver
    /\ bfs_successors_pernode[cycle_index] # << >>
    /\ LET successors ==
               TwoQubitOps(dag, Head(bfs_successors_pernode[cycle_index]))
       IN  extended_set' = InsertSuccessors(extended_set, successors)
    /\ bfs_successors_pernode' =
           [bfs_successors_pernode EXCEPT ![cycle_index] = Tail(@)]
    /\ cycle_index' = FollowingIndex
    /\ UNCHANGED << num_qubits, dag, adj_matrix, front_layer, applied_gates,
                    logic_to_phys, phys_to_logic, qubits_decay,
                    num_search_steps, mapped_dag, pc, history, approx_vars,
                    node_lookahead_exhausted >>

LookaheadLoopNext == LookaheadBreak \/ LookaheadExhausted \/ LookaheadPass

\* the loop is sequential code: it takes its next pass whenever it has one
LookaheadLoopSpec ==
    InitLookaheadLoop /\ [][LookaheadLoopNext]_vars /\ WF_vars(LookaheadLoopNext)

\* -------------------------------- heuristic_search on a device one qubit wider
InitWide ==
    /\ num_qubits = NumQubits + 1
    /\ dag \in WideCircuits
    /\ adj_matrix = PathAdj
    /\ front_layer = DagRoots(dag)
    /\ applied_gates = {}
    /\ logic_to_phys = [l \in Qubits |-> l]
    /\ phys_to_logic = [p \in Qubits |-> p]
    /\ qubits_decay = _reset_qubits_decay
    /\ num_search_steps = 0
    /\ mapped_dag = << >>
    /\ extended_set = {}
    /\ pc = "loop"
    /\ ApproxIdle
    /\ LookaheadIdle
    /\ history = TRUE

\* the path has a candidate for every front layer: line 434 never raises
WideNext == Drain \/ SwapStep \/ Return

WideSpec == InitWide /\ [][WideNext]_vars

\* ------------------------------------------- obtain_extended_set on its own
InitLookahead ==
    /\ num_qubits = NumQubits
    /\ dag \in LongCircuits
    /\ adj_matrix = PathAdj
    /\ front_layer = DagRoots(dag)
    /\ applied_gates = {}
    /\ logic_to_phys = [l \in Qubits |-> l]
    /\ phys_to_logic = [p \in Qubits |-> p]
    /\ qubits_decay = _reset_qubits_decay
    /\ num_search_steps = 0
    /\ mapped_dag = << >>
    /\ extended_set = {}
    /\ pc = "lookahead"
    /\ history = FALSE
    /\ ApproxIdle
    /\ LookaheadIdle

ObtainExtendedSet ==
    /\ pc = "lookahead"
    /\ extended_set' = obtain_extended_set(dag, front_layer)
    /\ pc' = "lookahead_done"
    /\ UNCHANGED << dag, adj_matrix, front_layer, applied_gates, logic_to_phys,
                    phys_to_logic, qubits_decay, num_search_steps, mapped_dag,
                    history, num_qubits, approx_vars,
                    lookahead_vars >>

LookaheadNext == ObtainExtendedSet

LookaheadSpec == InitLookahead /\ [][LookaheadNext]_vars

\* ------------------------------------- generate_approximations (part_000)
\* The loop of generate_approximations over products, with the loop of
\* remove_inverse_follows_gate inside it: every iteration of either loop is
\* one action.  pc is "approx_loop" at line 332, "remove" at line 297.
sabre_vars == << num_qubits, dag, adj_matrix, front_layer, applied_gates,
                 logic_to_phys, phys_to_logic, qubits_decay, num_search_steps,
                 mapped_dag, extended_set, history, lookahead_vars >>

SabreIdle ==
    /\ num_qubits = NumQubits
    /\ dag = << >>
    /\ adj_matrix = EmptyAdj
    /\ front_layer = << >>
    /\ applied_gates = {}
    /\ logic_to_phys = [l \in Qubits |-> l]
    /\ phys_to_logic = [p \in Qubits |-> p]
    /\ qubits_decay = _reset_qubits_decay
    /\ num_search_steps = 0
    /\ mapped_dag = << >>
    /\ extended_set = {}
    /\ history = FALSE
    /\ LookaheadIdle

GateLists(n) == SeqsUpTo(GateNames, n)

InitApprox(inputs) ==
    /\ SabreIdle
    /\ products \in inputs
    /\ item = 1
    /\ candidate = GateSequence(<< >>)
    /\ index = 0
    /\ sequences = << >>
    /\ pc = "approx_loop"

\* lines 332 - 334: candidate = GateSequence(item), and the call of
\* remove_inverse_follows_gate begins with index = 0
TakeItem ==
    /\ pc = "approx_loop"
    /\ item <= Len(products)
    /\ candidate' = GateSequence(products[item])
    /\ index' = 0
    /\ pc' = "remove"
    /\ UNCHANGED << sabre_vars, products, item, sequences >>

\* lines 298 - 307 with the step back of lines 306 - 307 left out
RemovePair_no_step_back ==
    /\ pc = "remove"
    /\ index < Len(candidate.gates) - 1
    /\ candidate.gates[index + 2] = Inverse(candidate.gates[index + 1])
    /\ LET gates1 == Pop(Pop(candidate.gates, index), index)
       IN  /\ candidate' = [candidate EXCEPT !.gates = gates1]
           /\ products' = [products EXCEPT ![item] = gates1]
    /\ index' = index
    /\ UNCHANGED << sabre_vars, item, sequences, pc >>

\* lines 298 - 307: gates[index + 1] is the inverse of gates[index], both are
\* popped.  candidate.gates is the list object of the item (line 203), so the
\* item in products shrinks with it.
RemovePair ==
    /\ pc = "remove"
    /\ index < Len(candidate.gates) - 1
    /\ candidate.gates[index + 2] = Inverse(candidate.gates[index + 1])
    /\ LET gates1 == Pop(Pop(candidate.gates, index), index)
       IN  /\ candidate' = [candidate EXCEPT !.gates = gates1]
           /\ products' = [products EXCEPT ![item] = gates1]
    /\ index' = IF index > 0 THEN index - 1 ELSE index
    /\ UNCHANGED << sabre_vars, item, sequences, pc >>

\* lines 308 - 310
NextIndex ==
    /\ pc = "remove"
    /\ index < Len(candidate.gates) - 1
    /\ candidate.gates[index + 2] # Inverse(candidate.gates[index + 1])
    /\ index' = index + 1
    /\ UNCHANGED << sabre_vars, products, item, candidate, sequences, pc >>

\* the loop of line 297 ends; lines 335 - 336
CheckCandidate ==
    /\ pc = "remove"
    /\ ~(index < Len(candidate.gates) - 1)
    /\ sequences' = IF check_candidate(candidate, sequences)
                    THEN Append(sequences, candidate)
                    ELSE sequences
    /\ item' = item + 1
    /\ pc' = "approx_loop"
    /\ UNCHANGED << sabre_vars, products, candidate, index >>

\* line 337
ReturnSequences ==
    /\ pc = "approx_loop"
    /\ item > Len(products)
    /\ pc' = "approx_returned"
    /\ UNCHANGED << sabre_vars, approx_vars >>

ApproxNext ==
    TakeItem \/ RemovePair \/ NextIndex \/ CheckCandidate \/ ReturnSequences

\* lists of up to MaxProducts gate lists
ApproxSpec ==
    InitApprox(SeqsUpTo(GateLists(MaxItemLen), MaxProducts))
        /\ [][ApproxNext]_vars

\* one gate list, of up to MaxSeqLen gates; the code is sequential and takes
\* its next step whenever it has one
RemoveSpec ==
    InitApprox({ << gates >> : gates \in GateLists(MaxSeqLen) })
        /\ [][ApproxNext]_vars /\ WF_vars(ApproxNext)

\* ------------------------------------------------------------ claim helpers
\* the records a step appends to mapped_dag
Emitted == { k \in DOMAIN mapped_dag' : k > Len(mapped_dag) }

GateRecords == { k \in DOMAIN mapped_dag : mapped_dag[k].op = "gate" }

SwapRecords == { k \in DOMAIN mapped_dag : mapped_dag[k].op = "swap" }

PhysOf(qargs) == [i \in DOMAIN qargs |-> logic_to_phys[qargs[i]]]

PositionsOf(n) == { k \in GateRecords : mapped_dag[k].node = n }

IsBijection(layout) ==
    /\ \A l \in Qubits : layout.p2l[layout.l2p[l]] = l
    /\ \A p \in Qubits : layout.l2p[layout.p2l[p]] = p

\* ------------------------------------------------------------------------ C1
\* C1: whenever a gate is drained it is emitted with every logical qarg q
\* replaced by logic_to_phys[q] under the layout current at that moment.
\* (The layout does not change during a drain pass.)
C1_DrainEmitsPhysOf ==
    [][ \A k \in Emitted :
            mapped_dag'[k].op = "gate"
                => mapped_dag'[k].qargs = PhysOf(mapped_dag'[k].logical) ]_vars

\* ------------------------------------------------------------------------ C2
\* C2: every two-qubit non-SWAP operation in the output has its two emitted
\* physical qargs adjacent in the coupling graph.
C2_GatesEmittedOnEdges ==
    \A k \in GateRecords :
        Len(mapped_dag[k].qargs) = 2
            => adj_matrix[mapped_dag[k].qargs[1]][mapped_dag[k].qargs[2]] # 0

\* ------------------------------------------------------------------------ C3
\* C3: every SWAP emitted into the output acts on two physical qubits that are
\* adjacent in the coupling graph.
C3_SwapsEmittedOnEdges ==
    \A k \in SwapRecords :
        adj_matrix[mapped_dag[k].qargs[1]][mapped_dag[k].qargs[2]] # 0

\* ------------------------------------------------------------------------ C4
\* C4: for every DAG edge u -> v, u is emitted before v: every emitted
\* operation is preceded in the output by all its operation predecessors.
C4_TopologicalOrder ==
    \A k \in GateRecords :
        LET predecessors == quantum_predecessors(dag, mapped_dag[k].node)
        IN  \A i \in DOMAIN predecessors :
                \E j \in PositionsOf(predecessors[i]) : j < k

\* a node with two predecessors was emitted after a swap iteration, and the
\* run has returned
C4_Witness ==
    /\ pc = "returned"
    /\ \E k \in GateRecords :
          /\ Len(quantum_predecessors(dag, mapped_dag[k].node)) = 2
          /\ \E j \in SwapRecords : j < k

C6_Termination ==
    (Connected(adj_matrix) /\ \A n \in NodeIds(dag) : Len(dag[n]) <= 2)
        => <>(pc = "returned")

\* ------------------------------------------------------------------------ C7
\* C7: no operation is ever emitted twice, the applied-gate set only grows,
\* and when heuristic_search returns every operation node of the DAG has been
\* emitted exactly once.
C7_EmittedExactlyOnce ==
    [][ /\ \A n \in NodeIds(dag) : Cardinality(PositionsOf(n)') <= 1
        /\ applied_gates \subseteq applied_gates'
        /\ pc' = "returned"
             => \A n \in NodeIds(dag) : Cardinality(PositionsOf(n)') = 1 ]_vars

\* a run over a circuit of three gates that needed a swap has returned
C7_Witness ==
    /\ pc = "returned"
    /\ Len(dag) >= 3
    /\ SwapRecords # {}
    /\ \A n \in NodeIds(dag) : Cardinality(PositionsOf(n)) = 1

\* ------------------------------------------------------------------------ C9
\* C9: every SWAP selected and emitted has logical indices (a, b) with a < b.
C9_SwapsNormalized ==
    \A k \in SwapRecords :
        mapped_dag[k].logical[1] < mapped_dag[k].logical[2]

\* ----------------------------------------------------------------------- C10
\* C10: a node with more than two qubit arguments that reaches the front
\* layer makes heuristic_search fail; the node is not emitted into the output.
C10_InvalidArityNotEmitted ==
    \A k \in GateRecords : Len(dag[mapped_dag[k].node]) <= 2

\* ----------------------------------------------------------------------- C11
\* C11: if the two logical qubits of a two-qubit gate in the front layer sit
\* in different components of the coupling graph, heuristic_search detects it
\* and ends with a fatal error, instead of selecting swaps forever.  Stated
\* as what every such failure implies: from then on the loop does not run
\* forever.
SameComponent(adj, p, q) == q \in Ball(adj, p, num_qubits - 1)

FrontGateDisconnected ==
    /\ pc = "loop"
    /\ \E k \in DOMAIN front_layer :
          LET qargs == dag[front_layer[k]]
          IN  /\ Len(qargs) = 2
              /\ ~SameComponent(adj_matrix, logic_to_phys[qargs[1]],
                                logic_to_phys[qargs[2]])

C11_DisconnectedDetected == FrontGateDisconnected ~> (pc # "loop")

\* ----------------------------------------------------------------------- C12
\* C12: when the front layer is nonempty, no gate of it is executable and
\* obtain_swaps returns no candidate, the only step heuristic_search takes is
\* the fatal failure: no SWAP is emitted, the layout is unchanged, and the loop
\* takes no step after the failure.
NoCandidate ==
    /\ pc = "loop"
    /\ front_layer # << >>
    /\ ExecuteGateList(front_layer, dag, adj_matrix, current_layout) = << >>
    /\ obtain_swaps(adj_matrix, front_layer, current_layout, dag) = << >>

C12_EmptyCandidatesFatal ==
    [][ /\ NoCandidate => /\ pc' = "raised"
                          /\ mapped_dag' = mapped_dag
                          /\ logic_to_phys' = logic_to_phys
                          /\ phys_to_logic' = phys_to_logic
        /\ pc # "raised" ]_vars

\* the failure, after a drain pass has brought a gate on isolated qubits to the
\* front layer
C12_Witness ==
    /\ pc = "raised"
    /\ applied_gates # {}
    /\ front_layer # << >>
    /\ SwapRecords = {}

\* ----------------------------------------------------------------------- C13
\* C13: if under the initial layout (the identity) every two-qubit gate of the
\* circuit acts on adjacent physical qubits, the run never selects a SWAP and
\* never fails, the layout stays the initial one, some gate of a nonempty front
\* layer is always executable, and at the return every gate has been emitted
\* once, after all its predecessors.
InitialLayout == [q \in Qubits |-> q]

AdjacentAtStart ==
    \A n \in NodeIds(dag) :
        Len(dag[n]) = 2
            => adj_matrix[InitialLayout[dag[n][1]]][InitialLayout[dag[n][2]]] # 0

C13_NoSwapNeeded ==
    AdjacentAtStart =>
        /\ SwapRecords = {}
        /\ pc # "raised"
        /\ logic_to_phys = InitialLayout
        /\ phys_to_logic = InitialLayout
        /\ (pc = "loop" /\ front_layer # << >>)
               => ExecuteGateList(front_layer, dag, adj_matrix,
                                  current_layout) # << >>
        /\ pc = "returned"
               => /\ Len(mapped_dag) = Len(dag)
                  /\ \A n \in NodeIds(dag) :
                        \E k \in PositionsOf(n) :
                            \A u \in Range(quantum_predecessors(dag, n)) :
                                \E j \in PositionsOf(u) : j < k

\* a run on the path has returned: the circuit has a two-qubit gate, every
\* two-qubit gate is on neighbours, and some gate waited for a predecessor
C13_Witness ==
    /\ pc = "returned"
    /\ adj_matrix = PathAdj
    /\ AdjacentAtStart
    /\ \E n \in NodeIds(dag) : Len(dag[n]) = 2
    /\ \E n \in NodeIds(dag) : quantum_predecessors(dag, n) # << >>

\* ----------------------------------------------------------------------- C14
\* C14: scenario S2 (three qubits on the path 0 - 1 - 2, identity initial
\* layout, the single gate CX(q0, q2)): the output is one SWAP followed by the
\* CX, either SWAP(0,1) and the CX on physical (1,2), or SWAP(1,2) and the CX
\* on physical (0,1).
ScenarioS2 ==
    /\ num_qubits = 3
    /\ adj_matrix = PathAdj
    /\ dag = << << 0, 2 >> >>

\* a SWAP of a and b, in either order of its two qubits
IsSwapOn(record, a, b) ==
    /\ record.op = "swap"
    /\ Range(record.logical) = { a, b }
    /\ Range(record.qargs) = { a, b }

IsGateOn(record, p, q) ==
    /\ record.op = "gate"
    /\ record.qargs = << p, q >>

C14_ScenarioS2Output ==
    (ScenarioS2 /\ pc = "returned") =>
        /\ Len(mapped_dag) = 2
        /\ \/ IsSwapOn(mapped_dag[1], 0, 1) /\ IsGateOn(mapped_dag[2], 1, 2)
           \/ IsSwapOn(mapped_dag[1], 1, 2) /\ IsGateOn(mapped_dag[2], 0, 1)

\* ----------------------------------------------------------------------- C15
\* C15: in scenario S2 the candidates SWAP(0,1) and SWAP(1,2) have equal
\* scores, and the selection picks SWAP(0,1).
\* the score line 430 computes for the trial layout of a candidate
TrialScore(heuristic, swap_qubits) ==
    LET trial_layout == NLayout_swap(NLayout_copy(current_layout),
                                     swap_qubits[1], swap_qubits[2])
    IN  score_heuristic(heuristic, cdist(adj_matrix), front_layer,
                        obtain_extended_set(dag, front_layer), trial_layout,
                        qubits_decay, swap_qubits, dag)

C15_TieBreakPicksFirst ==
    [][ (ScenarioS2 /\ mapped_dag = << >> /\ Len(mapped_dag') = 1)
            => /\ TrialScore(1, << 0, 1 >>) = TrialScore(1, << 1, 2 >>)
               /\ IsSwapOn(mapped_dag'[1], 0, 1) ]_vars

\* ----------------------------------------------------------------------- C16
\* C16: after a SWAP on (a, b), with k the number of SWAPs applied so far in
\* the run: if k is a multiple of 5 the decay vector is all ones; otherwise
\* decay[a] and decay[b] have each grown by DECAY_RATE and every other entry is
\* unchanged.
SwapEmitted ==
    /\ Len(mapped_dag') = Len(mapped_dag) + 1
    /\ mapped_dag'[Len(mapped_dag')].op = "swap"

C16_DecayAfterSwap ==
    [][ SwapEmitted =>
          LET k == Cardinality(SwapRecords')
              chosen == mapped_dag'[Len(mapped_dag')].logical
          IN  IF k % DECAY_RESET_INTERVAL = 0
              THEN qubits_decay' = [q \in Qubits |-> DecayOne]
              ELSE qubits_decay' =
                       [q \in Qubits |->
                           IF q \in Range(chosen)
                           THEN qubits_decay[q] + DECAY_RATE
                           ELSE qubits_decay[q]] ]_vars

\* ----------------------------------------------------------------------- C17
\* C17: after a drain iteration in which some drained node has a qarg the
\* decay vector is all ones (so it is all ones after two such iterations in a
\* row as well).
Drained == applied_gates' \ applied_gates

C17_DrainResetsDecay ==
    [][ (\E n \in Drained : dag[n] # << >>)
            => qubits_decay' = [q \in Qubits |-> DecayOne] ]_vars

\* a swap iteration has raised the decay, and two drain iterations in a row
\* have followed it: the second drained a successor of a node of the first
C17_Witness ==
    /\ qubits_decay = [q \in Qubits |-> DecayOne]
    /\ \E k \in SwapRecords :
          /\ num_search_steps = Cardinality(SwapRecords)
          /\ num_search_steps % DECAY_RESET_INTERVAL # 0
          /\ \A j \in SwapRecords : j <= k
          /\ Len(mapped_dag) >= k + 2
          /\ mapped_dag[k + 1].node
                 \in Range(quantum_predecessors(dag, mapped_dag[k + 2].node))

\* ----------------------------------------------------------------------- C18
\* C18: the SWAP applied in a swap iteration is one of the candidates
\* obtain_swaps produced in that iteration, and its score is the minimum of
\* the candidates' scores (under the heuristic of the run, whichever of the
\* three it is).
Candidates ==
    Range(obtain_swaps(adj_matrix, front_layer, current_layout, dag))

MinScoreCandidates(heuristic) ==
    { c \in Candidates :
          \A other \in Candidates :
              TrialScore(heuristic, c) <= TrialScore(heuristic, other) }

C18_MinScoreSelected ==
    [][ SwapEmitted =>
          \E heuristic \in Heuristics :
              mapped_dag'[Len(mapped_dag')].logical
                  \in MinScoreCandidates(heuristic) ]_vars

\* ----------------------------------------------------------------------- C19
\* C19: the front layer never holds the same node id twice, also after a drain
\* pass that applied several predecessors of one successor.
C19_FrontLayerDistinct ==
    \A i \in DOMAIN front_layer, j \in DOMAIN front_layer :
        i # j => front_layer[i] # front_layer[j]

\* one drain pass has applied the two predecessors of a node, which is now in
\* the front layer
C19_Witness ==
    /\ pc = "loop"
    /\ SwapRecords = {}
    /\ Len(mapped_dag) = 2
    /\ \E k \in DOMAIN front_layer :
          LET predecessors == quantum_predecessors(dag, front_layer[k])
          IN  /\ Len(predecessors) = 2
              /\ Range(predecessors) = applied_gates
              /\ Range(predecessors) = Range(DagRoots(dag))

SwapIteration ==
    /\ pc = "loop"
    /\ front_layer # << >>
    /\ ExecuteGateList(front_layer, dag, adj_matrix, current_layout) = << >>
    /\ obtain_swaps(adj_matrix, front_layer, current_layout, dag) # << >>

\* heuristic 1 on the current layout
BasicScore ==
    score_heuristic(1, cdist(adj_matrix), front_layer,
                    obtain_extended_set(dag, front_layer), current_layout,
                    qubits_decay, << 0, 0 >>, dag)

C21_BestCandidateReduces ==
    (SwapIteration /\ Connected(adj_matrix)) =>
        \E c \in Candidates : TrialScore(1, c) < BasicScore

\* ----------------------------------------------------------------------- C22
\* C22: at the start of every loop iteration (the run having started from the
\* roots of the DAG) the front layer is exactly the set of operation nodes
\* that are not applied and whose operation predecessors are all applied; in
\* particular it is disjoint from the applied-gate set.
ReadySet ==
    { n \in NodeIds(dag) :
          /\ n \notin applied_gates
          /\ \A u \in Range(quantum_predecessors(dag, n)) : u \in applied_gates }

C22_FrontLayerIsReadySet ==
    /\ Range(front_layer) = ReadySet
    /\ Range(front_layer) \cap applied_gates = {}

\* a drain pass and a swap iteration have happened, the front layer is not
\* empty, and some node is still waiting for a predecessor
C22_Witness ==
    /\ pc = "loop"
    /\ SwapRecords # {}
    /\ applied_gates # {}
    /\ front_layer # << >>
    /\ \E n \in NodeIds(dag) : n \notin applied_gates /\ n \notin ReadySet

\* ----------------------------------------------------------------------- C23
\* C23: whenever the selection of lines 420 - 454 runs (a SWAP is emitted, or
\* the selection fails for want of a candidate), every node of the front layer
\* has exactly two qargs, and its two logical qubits are on physical qubits
\* that are not adjacent under the current layout.
NotAdjacentNow(n) ==
    LET p0 == logic_to_phys[dag[n][1]]
        p1 == logic_to_phys[dag[n][2]]
    IN  adj_matrix[p0][p1] = 0 /\ adj_matrix[p1][p0] = 0

C23_ScoredFrontLayerBlocked ==
    [][ (SwapEmitted \/ (pc = "loop" /\ pc' = "raised"))
            => \A n \in Range(front_layer) :
                   Len(dag[n]) = 2 /\ NotAdjacentNow(n) ]_vars

\* a one-qubit gate and a two-qubit gate were drained, and a SWAP was then
\* selected for the gate that followed them
C23_Witness ==
    /\ Len(mapped_dag) >= 3
    /\ mapped_dag[1].op = "gate" /\ Len(mapped_dag[1].qargs) = 1
    /\ mapped_dag[2].op = "gate" /\ Len(mapped_dag[2].qargs) = 2
    /\ mapped_dag[3].op = "swap"

\* ----------------------------------------------------------------------- C24
\* C24: every candidate obtain_swaps returns is a pair of logical indices
\* {v, v'} with v a qarg of a front-layer node and v' the logical qubit on a
\* physical neighbour of the physical qubit of v; and every such pair is
\* returned (duplicates allowed).
FrontQubits == UNION { Range(dag[node]) : node \in Range(front_layer) }

PhysicalNeighbours(p) == { n \in Qubits : adj_matrix[p][n] # 0 }

NeighbourPairs ==
    UNION { { { v, phys_to_logic[n] } :
                  n \in PhysicalNeighbours(logic_to_phys[v]) } :
            v \in FrontQubits }

SelectionReached ==
    /\ pc = "loop"
    /\ front_layer # << >>
    /\ ExecuteGateList(front_layer, dag, adj_matrix, current_layout) = << >>

C24_CandidatesAreNeighbourPairs ==
    SelectionReached =>
        \A swap_candidates \in
               ReturnedSwaps(obtain_swaps(adj_matrix, front_layer,
                                          current_layout, dag)) :
            { Range(swap_candidates[i]) : i \in DOMAIN swap_candidates }
                = NeighbourPairs

\* ----------------------------------------------------------------------- C25
\* C25: every swap heuristic_search applies to the current layout exchanges
\* the contents of two physical qubits that are adjacent in the coupling
\* graph.
SwapApplied == num_search_steps' # num_search_steps

ExchangedOnEdge ==
    \E p \in Qubits, q \in Qubits :
        /\ adj_matrix[p][q] # 0
        /\ phys_to_logic' = [phys_to_logic EXCEPT ![p] = phys_to_logic[q],
                                                  ![q] = phys_to_logic[p]]
        /\ logic_to_phys' = [logic_to_phys EXCEPT ![phys_to_logic[p]] = q,
                                                  ![phys_to_logic[q]] = p]

C25_LayoutSwapsOnEdges == [][ SwapApplied => ExchangedOnEdge ]_vars

\* ----------------------------------------------------------------------- C26
\* C26: the two physical qubits a SWAP is emitted on are the two physical
\* qubits whose contents that step exchanges in the current layout: replaying
\* the emitted SWAPs from the initial layout gives the current layout at every
\* point of the run, and the final layout at the return.
RECURSIVE Replay(_, _)
Replay(layout, out) ==
    IF out = << >> THEN layout
    ELSE LET record == Head(out)
         IN  Replay(IF record.op = "swap"
                    THEN NLayout_swap(layout, record.qargs[1], record.qargs[2])
                    ELSE layout,
                    Tail(out))

C26_OutputReplaysLayout ==
    Replay([l2p |-> InitialLayout, p2l |-> InitialLayout], mapped_dag)
        = current_layout

\* ----------------------------------------------------------------------- C27
\* C27: an iteration in which at least one front-layer gate is executable
\* leaves the layout and the search-step counter unchanged, emits no SWAP, and
\* moves at least one node from the front layer into the applied-gate set.
DrainIteration ==
    /\ pc = "loop"
    /\ front_layer # << >>
    /\ ExecuteGateList(front_layer, dag, adj_matrix, current_layout) # << >>

C27_DrainFrame ==
    [][ DrainIteration =>
          /\ logic_to_phys' = logic_to_phys
          /\ phys_to_logic' = phys_to_logic
          /\ num_search_steps' = num_search_steps
          /\ \A k \in Emitted : mapped_dag'[k].op = "gate"
          /\ \E n \in Range(front_layer) :
                /\ n \notin Range(front_layer')
                /\ n \notin applied_gates
                /\ n \in applied_gates' ]_vars

\* a drain pass has followed a swap iteration and left a blocked gate behind
\* in the front layer
C27_Witness ==
    /\ Len(mapped_dag) >= 2
    /\ mapped_dag[Len(mapped_dag) - 1].op = "swap"
    /\ mapped_dag[Len(mapped_dag)].op = "gate"
    /\ front_layer # << >>
    /\ ExecuteGateList(front_layer, dag, adj_matrix, current_layout) = << >>

C29_DecayBounded ==
    \A i \in Qubits :
        /\ DecayOne <= qubits_decay[i]
        /\ qubits_decay[i] <= DecayOne + 4 * DECAY_RATE

\* ----------------------------------------------------------------------- C30
\* C30: the extended set built in a swap iteration (line 420) is disjoint from
\* the front layer and from the applied-gate set: it holds only operation
\* nodes that are not applied and not in the front layer.
C30_ExtendedSetAhead ==
    SelectionReached =>
        LET ext == obtain_extended_set(dag, front_layer)
        IN  /\ ext \subseteq NodeIds(dag)
            /\ ext \cap Range(front_layer) = {}
            /\ ext \cap applied_gates = {}

\* the selection is reached after a drain pass and a swap, and the lookahead
\* from the blocked gate finds a gate
C30_Witness ==
    /\ SelectionReached
    /\ applied_gates # {}
    /\ SwapRecords # {}
    /\ obtain_extended_set(dag, front_layer) # {}


\* ---------------------------------------------------------------------- C31
\* a pass of the loop whose generator yields a list of successors holding no
\* two-qubit operation
NoTwoQubitPass ==
    /\ pc = "lookahead_loop"
    /\ ~LookaheadOver
    /\ bfs_successors_pernode[cycle_index] # << >>
    /\ TwoQubitOps(dag, Head(bfs_successors_pernode[cycle_index])) = << >>

\* C31: for a nonempty front layer the round-robin of obtain_extended_set
\* comes to its end; it ends only when every generator is exhausted or the set
\* holds EXTENDED_SET_SIZE ids, with the set obtain_extended_set returns; and a
\* pass whose list holds no two-qubit operation changes neither the set nor
\* the exhausted flags and leaves the loop running.
C31_LookaheadTerminates ==
    /\ [](Len(front_layer) > 0 => <>(pc = "lookahead_done"))
    /\ [](pc = "lookahead_done" =>
              /\ LookaheadOver
              /\ extended_set = obtain_extended_set(dag, front_layer))
    /\ [][(pc = "lookahead_loop" /\ ~LookaheadOver) => pc' = "lookahead_loop"]_vars
    /\ [][NoTwoQubitPass =>
              /\ extended_set' = extended_set
              /\ node_lookahead_exhausted' = node_lookahead_exhausted
              /\ pc' = "lookahead_loop"
              /\ bfs_successors_pernode'[cycle_index] =
                     Tail(bfs_successors_pernode[cycle_index])]_vars

\* the loop has ended for a front layer of two nodes, one of whose generators
\* yielded a list without a two-qubit operation and after it a list with one,
\* which is in the set
C31_Witness ==
    /\ pc = "lookahead_done"
    /\ Len(front_layer) = 2
    /\ Cardinality(extended_set) < EXTENDED_SET_SIZE
    /\ \E k \in DOMAIN front_layer :
          LET entries == bfs_successors(dag, front_layer[k])
          IN  \E e1, e2 \in DOMAIN entries :
                  /\ e1 < e2
                  /\ entries[e1] # << >>
                  /\ TwoQubitOps(dag, entries[e1]) = << >>
                  /\ TwoQubitOps(dag, entries[e2]) # << >>
                  /\ Range(TwoQubitOps(dag, entries[e2])) \subseteq extended_set


\* ---------------------------------------------------------------------- C33
\* no index i with gates[i + 1] = gates[i].inverse()
NoInversePair(gates) ==
    \A i \in 1 .. (Len(gates) - 1) : gates[i + 1] # Inverse(gates[i])

\* remove_inverse_follows_gate has returned for the candidate
RemoveReturned ==
    \/ pc = "remove" /\ ~(index < Len(candidate.gates) - 1)
    \/ pc \in { "approx_loop", "approx_returned" } /\ item > 1

\* C33: the loop of remove_inverse_follows_gate comes to its end on every
\* sequence, the sequence it leaves has no gate followed by its inverse, and
\* [h, s, sdg, h] is left empty.
C33_InversePairsRemoved ==
    /\ [](pc = "remove" => <>RemoveReturned)
    /\ [](RemoveReturned => NoInversePair(candidate.gates))
    /\ [](pc = "remove" /\ candidate.gates = << "h", "s", "sdg", "h" >>
              => <>(RemoveReturned /\ candidate.gates = << >>))

\* remove_inverse_follows_gate at [h, s, sdg, h], at the pair s, sdg whose
\* removal brings h next to h
C33_Witness ==
    /\ pc = "remove"
    /\ index = 1
    /\ candidate.gates = << "h", "s", "sdg", "h" >>


\* ---------------------------------------------------------------------- C32
\* C32: in the list generate_approximations returns no two sequences have
\* products that are equal up to the phase.
C32_DistinctProducts ==
    pc = "approx_returned" =>
        \A i, j \in DOMAIN sequences :
            i # j => ~matrix_equal(sequences[i].product, sequences[j].product)

=============================================================================
